---- MODULE Spec2Model ----
(***************************************************************************)
(* Model of src/app.py: the provider-call retry wrapper (safe_api_call),   *)
(* the two JSON routes (/api/search, /api/company/<code>), and the ratio   *)
(* and detail extraction (calculate_financial_indicators,                  *)
(* extract_detail_data and their two get_value helpers).                   *)
(*                                                                         *)
(* Text is modelled as sequences of one-character strings so that          *)
(* str.replace, str.strip, float() and the f-string formats are computed   *)
(* character by character.  Row labels and column names are atomic         *)
(* strings; the Chinese row labels of the source are written as ASCII      *)
(* glosses (the line of the source that holds each label is given).        *)
(*                                                                         *)
(* Numbers are exact signed rationals [neg, n, d] (sign and magnitude, so  *)
(* that the float -0.0 and the "-0" it prints as are kept).  Binary        *)
(* rounding error of Python floats is not modelled: a value is rounded     *)
(* for display from its exact value, ties to even.                         *)
(***************************************************************************)
EXTENDS Integers, Sequences, FiniteSets, TLC

VARIABLES
    pc,         \* position of the request being served
    req,        \* the request: [kind, q] or [kind, code]
    fn,         \* the provider function the retry wrapper is wrapping
    i,          \* safe_api_call: loop index (0-based attempt number)
    log,        \* history: sleeps and provider calls of this request, in order
    raised,     \* history: exception text that left the last safe_api_call ("" if none)
    stock_info, \* the directory returned to get_company_data / search_companies
    balance,    \* statement tables held by calculate_financial_indicators
    income,
    cashflow,
    response,   \* the HTTP response of the request
    arg,        \* SpecResolve: the (row_name, col) argument of get_value
    out         \* SpecResolve / SpecCalc: the value returned by the function applied

vars == <<pc, req, fn, i, log, raised, stock_info, balance, income, cashflow,
          response, arg, out>>

----------------------------------------------------------------------------
(* Text helpers *)

DigitChars == <<"0", "1", "2", "3", "4", "5", "6", "7", "8", "9">>

IsDigit(c) == \E k \in 1..10 : DigitChars[k] = c

DigitVal(c) == (CHOOSE k \in 1..10 : DigitChars[k] = c) - 1

RECURSIVE Pow10(_)
Pow10(k) == IF k = 0 THEN 1 ELSE 10 * Pow10(k - 1)

\* All sequences over alphabet A of length at most n.
RECURSIVE SeqsUpTo(_, _)
SeqsUpTo(A, n) ==
    IF n = 0 THEN {<<>>}
    ELSE LET S == SeqsUpTo(A, n - 1)
         IN  S \cup {Append(s, c) : s \in {t \in S : Len(t) = n - 1}, c \in A}

\* str.replace(',', '')
RECURSIVE RemoveCommas(_)
RemoveCommas(s) ==
    IF s = <<>> THEN <<>>
    ELSE IF Head(s) = "," THEN RemoveCommas(Tail(s))
    ELSE <<Head(s)>> \o RemoveCommas(Tail(s))

\* str.replace('--', '0'): every non-overlapping occurrence, left to right.
RECURSIVE ReplaceDashes(_)
ReplaceDashes(s) ==
    IF Len(s) < 2 THEN s
    ELSE IF s[1] = "-" /\ s[2] = "-"
         THEN <<"0">> \o ReplaceDashes(SubSeq(s, 3, Len(s)))
         ELSE <<s[1]>> \o ReplaceDashes(Tail(s))

\* str.strip() of the query: leading and trailing blanks removed.
RECURSIVE LStrip(_)
LStrip(s) == IF s # <<>> /\ Head(s) = " " THEN LStrip(Tail(s)) ELSE s

RECURSIVE RStrip(_)
RStrip(s) ==
    IF s # <<>> /\ s[Len(s)] = " " THEN RStrip(SubSeq(s, 1, Len(s) - 1)) ELSE s

StripIdentity(s) == s

Strip(s) == RStrip(LStrip(s))

\* str.contains(query) for a query without regex metacharacters.
Contains(s, q) ==
    \E k \in 0..(Len(s) - Len(q)) : SubSeq(s, k + 1, k + Len(q)) = q

----------------------------------------------------------------------------
(* Numbers: [neg |-> BOOLEAN, n |-> Nat, d |-> Nat \ {0}] is (-1)^neg * n/d *)

Num(neg, n, d) == [n |-> n, neg |-> neg, d |-> d]

RECURSIVE GCD(_, _)
GCD(a, b) == IF b = 0 THEN a ELSE GCD(b, a % b)

\* the same number in lowest terms
Norm(x) == LET g == GCD(x.n, x.d) IN Num(x.neg, x.n \div g, x.d \div g)

Zero == Num(FALSE, 0, 1)

FromInt(k) == IF k < 0 THEN Num(TRUE, -k, 1) ELSE Num(FALSE, k, 1)

IsZero(x) == x.n = 0

\* signed numerator over the denominator x.d
SNum(x) == IF x.neg THEN -x.n ELSE x.n

Gt(x, y) == SNum(x) * y.d > SNum(y) * x.d

Lt(x, y) == Gt(y, x)

GtZero(x) == x.n > 0 /\ ~x.neg

\* x / y for y # 0 (the sign of a zero quotient follows IEEE: xor of the signs)
Div(x, y) ==
    LET g1 == GCD(x.n, y.n)
        g2 == GCD(x.d, y.d)
    IN  Norm(Num(x.neg # y.neg, (x.n \div g1) * (y.d \div g2), (x.d \div g2) * (y.n \div g1)))

Times100(x) ==
    LET g == GCD(100, x.d) IN Num(x.neg, x.n * (100 \div g), x.d \div g)

\* x - y; an exact zero difference is +0 unless x is -0 and y is +0
Sub(x, y) ==
    LET g == GCD(x.d, y.d)
        s == SNum(x) * (y.d \div g) - SNum(y) * (x.d \div g)
        d == (x.d \div g) * y.d
    IN  IF s = 0 THEN Num(IsZero(x) /\ x.neg /\ ~y.neg, 0, 1)
        ELSE IF s < 0 THEN Norm(Num(TRUE, -s, d))
        ELSE Norm(Num(FALSE, s, d))

\* |x| * 10^k rounded to an integer, ties to even
RoundScaled(x, k) ==
    LET s == x.n * Pow10(k)
        q == s \div x.d
        r == s % x.d
    IN  IF 2 * r > x.d THEN q + 1
        ELSE IF 2 * r = x.d THEN q + (q % 2)
        ELSE q

RECURSIVE NatToStr(_)
NatToStr(k) ==
    IF k < 10 THEN <<DigitChars[k + 1]>>
    ELSE NatToStr(k \div 10) \o <<DigitChars[(k % 10) + 1]>>

\* the ',' option of the format spec: a comma before every group of three digits
RECURSIVE Group3(_)
Group3(ds) ==
    IF Len(ds) <= 3 THEN ds
    ELSE Group3(SubSeq(ds, 1, Len(ds) - 3)) \o <<",">> \o SubSeq(ds, Len(ds) - 2, Len(ds))

RECURSIVE PadLeft(_, _)
PadLeft(ds, k) == IF Len(ds) >= k THEN ds ELSE PadLeft(<<"0">> \o ds, k)

\* f"{x:[+][,].<decimals>f}"
FormatFixed(x, decimals, plus, group) ==
    LET r     == RoundScaled(x, decimals)
        ip    == NatToStr(r \div Pow10(decimals))
        fp    == PadLeft(NatToStr(r % Pow10(decimals)), decimals)
        sign  == IF x.neg THEN <<"-">> ELSE IF plus THEN <<"+">> ELSE <<>>
        whole == IF group THEN Group3(ip) ELSE ip
    IN  sign \o whole \o (IF decimals > 0 THEN <<".">> \o fp ELSE <<>>)

RECURSIVE DigitsVal(_)
DigitsVal(ds) ==
    IF ds = <<>> THEN 0
    ELSE 10 * DigitsVal(SubSeq(ds, 1, Len(ds) - 1)) + DigitVal(ds[Len(ds)])

\* float(s) on text made of digits, '.', '-', '+', ',' and letters other than
\* those of inf/nan/e: [sign] digits [. [digits]] | [sign] . digits
ParseFloat(s) ==
    LET signed == s # <<>> /\ Head(s) \in {"-", "+"}
        body   == IF signed THEN Tail(s) ELSE s
        dots   == {k \in 1..Len(body) : body[k] = "."}
        dot    == IF dots = {} THEN Len(body) + 1 ELSE CHOOSE k \in dots : TRUE
        ip     == SubSeq(body, 1, dot - 1)
        fp     == SubSeq(body, dot + 1, Len(body))
        ok     == /\ Cardinality(dots) <= 1
                  /\ \A k \in 1..Len(body) : IsDigit(body[k]) \/ body[k] = "."
                  /\ Len(ip) + Len(fp) > 0
    IN  IF ok
        THEN [ok |-> TRUE,
              val |-> Norm(Num(signed /\ Head(s) = "-", DigitsVal(ip \o fp), Pow10(Len(fp))))]
        ELSE [ok |-> FALSE, val |-> Zero]

----------------------------------------------------------------------------
(* Statement tables.  A provider result is None or a DataFrame:            *)
(*   [kind |-> "df", columns |-> <<label column, period columns...>>,      *)
(*    rows |-> << [label |-> ..., cells |-> [period column -> cell]] >>]   *)
(* A cell is None, text, or a number already held as a number; the three   *)
(* kinds share one record shape, told apart by the field t.                *)

NoneResult == [kind |-> "none", columns |-> <<>>, rows |-> <<>>]

DataFrame(columns, rows) == [kind |-> "df", columns |-> columns, rows |-> rows]

NoneCell == [s |-> <<>>, t |-> "none", v |-> Zero]

StrCell(s) == [s |-> s, t |-> "str", v |-> Zero]

NumCell(v) == [s |-> <<>>, t |-> "num", v |-> v]

IsNone(df) == df.kind = "none"

\* DataFrame.empty: no rows or no columns
IsEmpty(df) == df.rows = <<>> \/ df.columns = <<>>

\* df[df.iloc[:, 0] == row_name], then row.iloc[0][col]:
\* found = some row has the label; keyerror = col is not a column of df
Lookup(df, row_name, col) ==
    LET hits == {k \in 1..Len(df.rows) : df.rows[k].label = row_name}
        first == CHOOSE k \in hits : \A m \in hits : k <= m
    IN  IF hits = {} THEN [val |-> NoneCell, found |-> FALSE, keyerror |-> FALSE]
        ELSE IF col \notin DOMAIN df.rows[first].cells
             THEN [val |-> NoneCell, found |-> TRUE, keyerror |-> TRUE]
             ELSE [val |-> df.rows[first].cells[col], found |-> TRUE, keyerror |-> FALSE]

\* get_value of calculate_financial_indicators (lines 61-73)
get_value(df, row_name, col) ==
    LET r == Lookup(df, row_name, col)
    IN  IF ~r.found THEN Zero                    \* line 70
        ELSE IF r.keyerror THEN Zero             \* line 65 raises, line 73
        ELSE IF r.val.t = "none" THEN Zero       \* line 69
        ELSE IF r.val.t = "num" THEN r.val.v     \* line 69
        ELSE LET s == ReplaceDashes(RemoveCommas(r.val.s))   \* line 68
                 p == ParseFloat(s)
             IN  IF s = <<>> \/ s = <<"-", "-">> THEN Zero   \* line 69
                 ELSE IF p.ok THEN p.val ELSE Zero           \* line 69 / 73

\* the sentinel of line 190 (two characters in the source)
MISSING == <<"que", "shi">>

NA == <<"N", "/", "A">>

Pct == <<"%">>

\* get_value of extract_detail_data (lines 182-194)
get_value_detail(df, row_name, col) ==
    LET r == Lookup(df, row_name, col)
    IN  IF ~r.found THEN MISSING                 \* line 192
        ELSE IF r.keyerror THEN MISSING          \* line 186 raises, line 194
        ELSE IF r.val.t = "none" THEN MISSING    \* line 190
        ELSE IF r.val.t = "num" THEN FormatFixed(r.val.v, 0, FALSE, TRUE)
        ELSE LET s == RemoveCommas(r.val.s)      \* line 188
                 p == ParseFloat(s)
             IN  IF s = <<>> \/ s = <<"-", "-">> THEN MISSING    \* line 190
                 ELSE IF p.ok THEN FormatFixed(p.val, 0, FALSE, TRUE)   \* line 191
                 ELSE MISSING                                     \* line 194

\* calc_change without the sentinel test of line 198
calc_change_no_sentinel(current, previous) ==
    LET c == ParseFloat(RemoveCommas(current))
        p == ParseFloat(RemoveCommas(previous))
    IN  IF ~c.ok \/ ~p.ok THEN NA
        ELSE IF IsZero(p.val) THEN NA
        ELSE FormatFixed(Times100(Div(Sub(c.val, p.val), p.val)), 0, TRUE, FALSE) \o Pct

\* calc_change (lines 196-207)
calc_change(current, previous) ==
    IF current = MISSING \/ previous = MISSING THEN MISSING      \* line 198
    ELSE LET c == ParseFloat(RemoveCommas(current))              \* line 200
             p == ParseFloat(RemoveCommas(previous))             \* line 201
         IN  IF ~c.ok \/ ~p.ok THEN MISSING                      \* line 207
             ELSE IF IsZero(p.val) THEN NA                       \* line 202
             ELSE FormatFixed(Times100(Div(Sub(c.val, p.val), p.val)), 0, TRUE, FALSE)
                  \o Pct                                         \* line 205

\* the body of the item loops (lines 223-229, 255-261, 273-279, 292-298)
DetailItem(df, item_name, current_col, previous_col) ==
    LET current  == get_value_detail(df, item_name, current_col)
        previous == get_value_detail(df, item_name, previous_col)
    IN  [current |-> current, previous |-> previous,
         change |-> calc_change(current, previous)]

AllMissing == [current |-> MISSING, previous |-> MISSING, change |-> MISSING]

\* "<number>%"[:-1]
DropLast(s) == SubSeq(s, 1, Len(s) - 1)

\* one side of the pseudo-row: the text of line 237 / 238, or a raise
RatioText(ca, cl) ==
    LET a == ParseFloat(RemoveCommas(ca))
        l == ParseFloat(RemoveCommas(cl))
    IN  IF ~a.ok \/ ~l.ok \/ IsZero(l.val) THEN [s |-> <<>>, ok |-> FALSE]
        ELSE [s |-> FormatFixed(Times100(Div(a.val, l.val)), 0, FALSE, FALSE) \o Pct,
              ok |-> TRUE]

\* the pseudo-row with each side guarded on its own
CurrentRatioRowPerSide(bal, current_col, previous_col) ==
    LET rc == RatioText(get_value_detail(bal, "current_assets", current_col),
                        get_value_detail(bal, "current_liabilities", current_col))
        rp == RatioText(get_value_detail(bal, "current_assets", previous_col),
                        get_value_detail(bal, "current_liabilities", previous_col))
    IN  [current  |-> IF rc.ok THEN rc.s ELSE MISSING,
         previous |-> IF rp.ok THEN rp.s ELSE MISSING,
         change   |-> IF rc.ok /\ rp.ok
                      THEN FormatFixed(Sub(ParseFloat(DropLast(rc.s)).val,
                                           ParseFloat(DropLast(rp.s)).val),
                                       0, TRUE, FALSE) \o Pct
                      ELSE MISSING]

\* the computed current-ratio pseudo-row of category 'cash' (lines 230-245)
CurrentRatioRow(bal, current_col, previous_col) ==
    LET ca_c == get_value_detail(bal, "current_assets", current_col)
        cl_c == get_value_detail(bal, "current_liabilities", current_col)
        ca_p == get_value_detail(bal, "current_assets", previous_col)
        cl_p == get_value_detail(bal, "current_liabilities", previous_col)
        rc   == RatioText(ca_c, cl_c)
        rp   == RatioText(ca_p, cl_p)
    IN  IF ~rc.ok \/ ~rp.ok THEN AllMissing                      \* line 245
        ELSE [current  |-> rc.s,
              previous |-> rp.s,
              change   |-> FormatFixed(Sub(ParseFloat(DropLast(rc.s)).val,
                                           ParseFloat(DropLast(rp.s)).val),
                                       0, TRUE, FALSE) \o Pct]   \* line 242

\* the (label, table) lists of lines 212-219, 248-252, 264-270, 282-289;
\* src is "balance", "cashflow", "income" or "computed" (the None of line 215)
Items(category) ==
    CASE category = "cash" ->
           <<[name |-> "cash", src |-> "balance"],
             [name |-> "current_liabilities", src |-> "balance"],
             [name |-> "current_ratio", src |-> "computed"],
             [name |-> "operating_cashflow", src |-> "cashflow"],
             [name |-> "net_profit", src |-> "income"],
             [name |-> "operating_cost", src |-> "income"]>>
      [] category = "supply" ->
           <<[name |-> "accounts_payable", src |-> "balance"],
             [name |-> "prepayments", src |-> "balance"],
             [name |-> "notes_payable", src |-> "balance"]>>
      [] category = "profit" ->
           <<[name |-> "net_profit", src |-> "income"],
             [name |-> "revenue", src |-> "income"],
             [name |-> "operating_cost", src |-> "income"],
             [name |-> "operating_profit", src |-> "income"],
             [name |-> "total_profit", src |-> "income"]>>
      [] category = "other" ->
           <<[name |-> "accounts_receivable", src |-> "balance"],
             [name |-> "inventory", src |-> "balance"],
             [name |-> "fixed_assets", src |-> "balance"],
             [name |-> "intangible_assets", src |-> "balance"],
             [name |-> "total_assets", src |-> "balance"],
             [name |-> "total_liabilities", src |-> "balance"]>>
      [] OTHER -> <<>>

Categories == {"cash", "supply", "profit", "other"}

ItemNames(category) == {Items(category)[k].name : k \in 1..Len(Items(category))}

ItemSrc(category, name) ==
    (CHOOSE it \in {Items(category)[k] : k \in 1..Len(Items(category))} : it.name = name).src

\* extract_detail_data (lines 180-300): the dict data, keyed by item name
extract_detail_data(bal, cf, inc, current_col, previous_col, category) ==
    [name \in ItemNames(category) |->
        LET src == ItemSrc(category, name)
        IN  IF src = "computed"
            THEN CurrentRatioRow(bal, current_col, previous_col)
            ELSE DetailItem(IF src = "balance" THEN bal
                            ELSE IF src = "cashflow" THEN cf ELSE inc,
                            name, current_col, previous_col)]

----------------------------------------------------------------------------
(* calculate_financial_indicators, after the three fetches (lines 36-172) *)

\* lines 135, 141, 147, 153, 159
Trend(current, previous) ==
    IF Gt(current, previous) THEN "up"
    ELSE IF Lt(current, previous) THEN "down"
    ELSE "neutral"

\* the guarded quotients of lines 108-125: numerator / denominator [* 100]
Ratio(numerator, denominator, percent) ==
    IF GtZero(denominator)
    THEN IF percent THEN Times100(Div(numerator, denominator))
         ELSE Div(numerator, denominator)
    ELSE Zero

\* the relative change guarded by previous != 0 instead of previous > 0
RelChangeNonZero(current, previous) ==
    IF ~IsZero(previous)
    THEN FormatFixed(Times100(Div(Sub(current, previous), previous)), 0, TRUE, FALSE) \o Pct
    ELSE NA

\* the 'change' of lines 142, 148, 160
RelChange(current, previous) ==
    IF GtZero(previous)
    THEN FormatFixed(Times100(Div(Sub(current, previous), previous)), 0, TRUE, FALSE) \o Pct
    ELSE NA

\* the 'change' of lines 136 and 154
AbsChange(current, previous, decimals) ==
    FormatFixed(Sub(current, previous), decimals, TRUE, FALSE) \o Pct

\* an entry of coreIndicators whose change is a point delta (debtRatio, currentRatio)
PointIndicator(current, previous, decimals) ==
    [previous |-> FormatFixed(previous, decimals, FALSE, FALSE) \o Pct,
     change   |-> AbsChange(current, previous, decimals),
     value    |-> FormatFixed(current, decimals, FALSE, FALSE) \o Pct,
     trend    |-> Trend(current, previous)]

\* an entry of coreIndicators whose change is relative (the three turnovers)
RelIndicator(current, previous) ==
    [previous |-> FormatFixed(previous, 1, FALSE, FALSE),
     change   |-> RelChange(current, previous),
     value    |-> FormatFixed(current, 1, FALSE, FALSE),
     trend    |-> Trend(current, previous)]

\* line 55
CurrentCol(bal) == bal.columns[2]

\* line 56 with the test written > 3
PreviousColOffByOne(bal) == IF Len(bal.columns) > 3 THEN bal.columns[3] ELSE bal.columns[2]

\* line 56
PreviousCol(bal) == IF Len(bal.columns) > 2 THEN bal.columns[3] ELSE bal.columns[2]

\* the raw ratio values of lines 108-125 for one period column
RawRatios(bal, inc, cf, col) ==
    [debtRatio |->
        Ratio(get_value(bal, "total_liabilities", col),
              get_value(bal, "total_assets", col), TRUE),
     payableTurnover |->
        Ratio(get_value(inc, "operating_cost", col),
              get_value(bal, "accounts_payable", col), FALSE),
     profitCashRate |->
        Ratio(get_value(cf, "operating_cashflow", col),
              get_value(inc, "net_profit", col), FALSE),
     currentRatio |->
        Ratio(get_value(bal, "current_assets", col),
              get_value(bal, "current_liabilities", col), TRUE),
     receivableTurnover |->
        Ratio(get_value(inc, "revenue", col),
              get_value(bal, "accounts_receivable", col), FALSE)]

\* the None returned by calculate_financial_indicators
NoResult == [kind |-> "none"]

\* lines 36-172: None, or the result dict
Process(bal, inc, cf) ==
    IF IsNone(bal) \/ IsEmpty(bal) THEN NoResult               \* line 36
    ELSE IF IsNone(inc) \/ IsEmpty(inc) THEN NoResult          \* line 40
    ELSE IF IsNone(cf) \/ IsEmpty(cf) THEN NoResult            \* line 44
    ELSE IF Len(bal.columns) < 2 THEN NoResult                 \* line 51
    ELSE
      LET current_col  == CurrentCol(bal)
          previous_col == PreviousCol(bal)
          c == RawRatios(bal, inc, cf, current_col)
          p == RawRatios(bal, inc, cf, previous_col)
      IN  [kind |-> "result",
           report_date   |-> current_col,
           previous_date |-> previous_col,
           coreIndicators |->
             [debtRatio          |-> PointIndicator(c.debtRatio, p.debtRatio, 1),
              payableTurnover    |-> RelIndicator(c.payableTurnover, p.payableTurnover),
              profitCashRate     |-> RelIndicator(c.profitCashRate, p.profitCashRate),
              currentRatio       |-> PointIndicator(c.currentRatio, p.currentRatio, 0),
              receivableTurnover |-> RelIndicator(c.receivableTurnover, p.receivableTurnover)],
           detailData |->
             [cashFlowRisk      |-> extract_detail_data(bal, cf, inc, current_col, previous_col, "cash"),
              supplyChainRisk   |-> extract_detail_data(bal, cf, inc, current_col, previous_col, "supply"),
              profitabilityRisk |-> extract_detail_data(bal, cf, inc, current_col, previous_col, "profit"),
              otherRisk         |-> extract_detail_data(bal, cf, inc, current_col, previous_col, "other")]]

----------------------------------------------------------------------------
(* Requests and responses of the two JSON routes *)

NoCompany == [name |-> <<>>, code |-> <<>>, financial_data |-> NoResult]

NoResponse ==
    [body |-> "none", status |-> 0, error |-> "", results |-> <<>>, company |-> NoCompany]

NoRequest == [q |-> <<>>, kind |-> "none", code |-> <<>>]

\* jsonify(list): a JSON array
JsonList(results) ==
    [body |-> "list", status |-> 200, error |-> "", results |-> results,
     company |-> NoCompany]

\* jsonify({'error': text}), status: an object with the single key error
JsonError(status, text) ==
    [body |-> "error", status |-> status, error |-> text, results |-> <<>>,
     company |-> NoCompany]

\* jsonify({'code', 'name', 'financial_data'})
JsonCompany(code, name, financial_data) ==
    [body |-> "company", status |-> 200, error |-> "", results |-> <<>>,
     company |-> [name |-> name, code |-> code, financial_data |-> financial_data]]

----------------------------------------------------------------------------
(* SpecCalc: calculate_financial_indicators applied to statement tables    *)
(* drawn from bounded sets.                                                *)

MaxCols == 3

PeriodNames == <<"P1", "P2", "P3", "P4", "P5">>

\* <<"item", "P1", ..., "P(n-1)">>
Columns(n) == <<"item">> \o SubSeq(PeriodNames, 1, n - 1)

\* raw cells a statement row may hold
RatioCells ==
    { NoneCell,
      StrCell(<<"-", "-">>),
      StrCell(<<"0">>),
      StrCell(<<"-", "2">>),
      StrCell(<<"0", ".", "4">>),
      StrCell(<<"3">>),
      StrCell(<<"8">>),
      StrCell(<<"1", ",", "0", "0", "0">>),
      StrCell(<<"x">>),
      NumCell(FromInt(12)) }

OlderCell == StrCell(<<"9">>)

\* a row holding cur in the first period column, prev in the second, OlderCell after
Row(label, cols, cur, prev) ==
    [label |-> label,
     cells |-> [c \in {cols[k] : k \in 2..Len(cols)} |->
                  IF c = "P1" THEN cur ELSE IF c = "P2" THEN prev ELSE OlderCell]]

RECURSIVE RowsOf(_, _, _, _)
RowsOf(labels, cols, cur, prev) ==
    IF labels = <<>> THEN <<>>
    ELSE <<Row(Head(labels), cols, cur, prev)>> \o RowsOf(Tail(labels), cols, cur, prev)

\* rows never present in the tables drawn: notes_payable, intangible_assets, total_profit
BalanceTable(n, nc, np, dc, dp, withDen) ==
    DataFrame(Columns(n),
        RowsOf(<<"total_liabilities", "current_assets", "cash", "prepayments",
                 "inventory", "fixed_assets">>, Columns(n), nc, np)
        \o (IF withDen
            THEN RowsOf(<<"total_assets", "current_liabilities", "accounts_payable",
                          "accounts_receivable">>, Columns(n), dc, dp)
            ELSE <<>>))

IncomeTable(n, nc, np, dc, dp, withDen) ==
    DataFrame(Columns(n),
        RowsOf(<<"operating_cost", "revenue", "operating_profit">>, Columns(n), nc, np)
        \o (IF withDen THEN RowsOf(<<"net_profit">>, Columns(n), dc, dp) ELSE <<>>))

CashflowTable(n, nc, np) ==
    DataFrame(Columns(n), RowsOf(<<"operating_cashflow">>, Columns(n), nc, np))

InitCalc ==
    /\ pc = "input"
    /\ \E n \in 1..MaxCols, short \in BOOLEAN, withDen \in BOOLEAN :
       \E nc \in RatioCells, np \in RatioCells, dc \in RatioCells, dp \in RatioCells :
         LET m == IF short /\ n > 2 THEN 2 ELSE n
         IN  /\ balance  = BalanceTable(n, nc, np, dc, dp, withDen)
             /\ income   = IncomeTable(m, nc, np, dc, dp, withDen)
             /\ cashflow = CashflowTable(m, nc, np)
    /\ out = <<>>
    /\ req = NoRequest /\ fn = "" /\ i = 0 /\ log = <<>> /\ raised = ""
    /\ stock_info = NoneResult /\ response = NoResponse /\ arg = <<>>

Calculate ==
    /\ pc = "input"
    /\ out' = Process(balance, income, cashflow)
    /\ pc' = "computed"
    /\ UNCHANGED <<req, fn, i, log, raised, stock_info, balance, income, cashflow,
                   response, arg>>

NextCalc == Calculate

SpecCalc == InitCalc /\ [][NextCalc]_vars

----------------------------------------------------------------------------
(* Properties of the calculation (SpecCalc) *)

Computed == pc = "computed" /\ out.kind = "result"

RelRatios == {"payableTurnover", "profitCashRate", "receivableTurnover"}

\* the (category key, category) pairs of lines 164-167
DetailKeys ==
    { <<"cashFlowRisk", "cash">>, <<"supplyChainRisk", "supply">>,
      <<"profitabilityRisk", "profit">>, <<"otherRisk", "other">> }

\* the directly looked-up items of a category (all but the computed pseudo-row)
DirectItems(category) == {nm \in ItemNames(category) : ItemSrc(category, nm) # "computed"}

PlusZeroPct == <<"+", "0", "%">>

PlusZeroPct1 == <<"+", "0", ".", "0", "%">>

\* (x - x) / x * 100 is -0.0 for a negative x, printed "-0%"
MinusZeroPct == <<"-", "0", "%">>

\* s is a sign, digits and '%', and its integer is x rounded (|k - x| <= 1/2)
IsSignedPercentOf(s, x) ==
    /\ Len(s) >= 3
    /\ s[1] \in {"+", "-"}
    /\ s[Len(s)] = "%"
    /\ \A k \in 2..(Len(s) - 1) : IsDigit(s[k])
    /\ (s[1] = "-") = x.neg
    /\ LET k == DigitsVal(SubSeq(s, 2, Len(s) - 1))
       IN  2 * (IF k * x.d >= x.n THEN k * x.d - x.n ELSE x.n - k * x.d) <= x.d

Thm_C10 ==
    Computed =>
      LET row  == out.detailData.cashFlowRisk["current_ratio"]
          cols == {out.report_date, out.previous_date}
          src  == {get_value_detail(balance, nm, col) :
                     nm \in {"current_assets", "current_liabilities"}, col \in cols}
          cl   == {get_value_detail(balance, "current_liabilities", col) : col \in cols}
          core == out.coreIndicators.currentRatio
      IN  /\ (row.current = MISSING) = (row.previous = MISSING)
          /\ (row.current = MISSING) = (row.change = MISSING)
          /\ (row.current = MISSING) <=>
               \/ MISSING \in src
               \/ \E t \in cl : t # MISSING /\ IsZero(ParseFloat(RemoveCommas(t)).val)
          /\ SNum(get_value(balance, "current_liabilities", out.report_date)) <= 0
               => core.value = <<"0", "%">>
          /\ SNum(get_value(balance, "current_liabilities", out.previous_date)) <= 0
               => core.previous = <<"0", "%">>

Wit_C10 ==
    /\ Computed
    /\ out.detailData.cashFlowRisk["current_ratio"] = AllMissing
    /\ get_value_detail(balance, "current_liabilities", out.report_date) = <<"0">>
    /\ out.coreIndicators.currentRatio.value # <<"0", "%">>
    /\ get_value_detail(balance, "current_liabilities", out.previous_date) = <<"3">>
    /\ get_value_detail(balance, "current_assets", out.previous_date) = <<"8">>

----------------------------------------------------------------------------
(* SpecDetail: extract_detail_data applied, one category at a time, to     *)
(* tables whose rows hold a (current, previous) pair of cells drawn from   *)
(* every short text.                                                       *)

MaxDetailLen == 2

DetailChars == {"0", "1", ",", "-", "."}

DetailCells ==
    {StrCell(s) : s \in SeqsUpTo(DetailChars, MaxDetailLen)}
      \cup {NoneCell, NumCell(FromInt(12)), NumCell(FromInt(-3))}

InitDetail ==
    /\ pc = "input"
    /\ \E cur \in DetailCells, prev \in DetailCells, short \in BOOLEAN :
         /\ balance  = BalanceTable(3, cur, prev, cur, prev, TRUE)
         /\ income   = IncomeTable(IF short THEN 2 ELSE 3, cur, prev, cur, prev, TRUE)
         /\ cashflow = CashflowTable(3, cur, prev)
    /\ arg = <<>>
    /\ out = <<>>
    /\ req = NoRequest /\ fn = "" /\ i = 0 /\ log = <<>> /\ raised = ""
    /\ stock_info = NoneResult /\ response = NoResponse

ExtractDetail(category) ==
    /\ pc = "input"
    /\ arg' = category
    /\ out' = extract_detail_data(balance, cashflow, income,
                                  CurrentCol(balance), PreviousCol(balance), category)
    /\ pc' = "extracted"
    /\ UNCHANGED <<req, fn, i, log, raised, stock_info, balance, income, cashflow,
                   response>>

NextDetail == \E category \in Categories : ExtractDetail(category)

SpecDetail == InitDetail /\ [][NextDetail]_vars

\* C8: for every directly looked-up detail item of every category, change is
\* the missing sentinel exactly when current or previous is the missing
\* sentinel; when neither is, change is "N/A" exactly when the re-parsed
\* previous value is zero, and a signed 0-decimal percent otherwise.
Thm_C8 ==
    pc = "extracted" =>
      \A nm \in DirectItems(arg) :
        LET it == out[nm]
            c  == ParseFloat(RemoveCommas(it.current))
            p  == ParseFloat(RemoveCommas(it.previous))
        IN  /\ (it.change = MISSING) <=> (it.current = MISSING \/ it.previous = MISSING)
            /\ (it.current # MISSING /\ it.previous # MISSING) =>
                 /\ c.ok /\ p.ok
                 /\ (it.change = NA) <=> IsZero(p.val)
                 /\ ~IsZero(p.val) =>
                      IsSignedPercentOf(it.change,
                                        Times100(Div(Sub(c.val, p.val), p.val)))

\* previous is ".1": it formats to "0", so the change of every item found is
\* "N/A"; the income statement lacks the previous period, so its items'
\* change is missing although their current value is not
Wit_C8 ==
    /\ pc = "extracted"
    /\ arg = "cash"
    /\ Lookup(balance, "cash", "P2").val = StrCell(<<".", "1">>)
    /\ out["cash"].current = <<"1", "1">>
    /\ out["cash"].previous = <<"0">>
    /\ out["cash"].change = NA
    /\ out["net_profit"].current = <<"1", "1">>
    /\ out["net_profit"].change = MISSING

----------------------------------------------------------------------------
(* SpecResolve: the ratio resolver get_value applied to one table, label   *)
(* and period drawn from bounded sets.                                     *)

MaxCellLen == 3

CellChars == {"0", "1", "5", ",", "-", ".", "x"}

\* every text of at most MaxCellLen characters, None, and a held number
AllCells ==
    {StrCell(s) : s \in SeqsUpTo(CellChars, MaxCellLen)}
      \cup {NoneCell, NumCell(FromInt(12)), NumCell(FromInt(-3))}

InitResolve ==
    /\ pc = "input"
    /\ \E c \in AllCells, first \in {"A", "B"} :
         balance = DataFrame(<<"item", "P1">>,
                             << [label |-> first, cells |-> [k \in {"P1"} |-> c]],
                                [label |-> "A",
                                 cells |-> [k \in {"P1"} |-> StrCell(<<"7">>)]] >>)
    /\ arg \in [row_name : {"A", "C"}, col : {"P1", "P2"}]
    /\ out = <<>>
    /\ income = NoneResult /\ cashflow = NoneResult
    /\ req = NoRequest /\ fn = "" /\ i = 0 /\ log = <<>> /\ raised = ""
    /\ stock_info = NoneResult /\ response = NoResponse

Resolve ==
    /\ pc = "input"
    /\ out' = get_value(balance, arg.row_name, arg.col)
    /\ pc' = "resolved"
    /\ UNCHANGED <<req, fn, i, log, raised, stock_info, balance, income, cashflow,
                   response, arg>>

NextResolve == Resolve

SpecResolve == InitResolve /\ [][NextResolve]_vars

\* C9: the ratio resolver always returns a number; it returns 0 when no row
\* has the label, when the lookup fails (the period is no column of the
\* table), when the cell is absent, empty or the dash placeholder, and when
\* the cell cannot be parsed as a number; otherwise it returns the cell's
\* numeric value with the thousands separators removed.
Claim_C9 ==
    pc = "resolved" =>
      LET r == Lookup(balance, arg.row_name, arg.col)
      IN  /\ out \in [n : Nat, neg : BOOLEAN, d : Nat \ {0}]
          /\ IF ~r.found \/ r.keyerror \/ r.val.t = "none" THEN out = Zero
             ELSE IF r.val.t = "num" THEN out = r.val.v
             ELSE LET s == RemoveCommas(r.val.s)
                      p == ParseFloat(s)
                  IN  IF s = <<>> \/ s = <<"-", "-">> \/ ~p.ok THEN out = Zero
                      ELSE out = p.val

----------------------------------------------------------------------------
(* Spec: the two JSON routes and the retry wrapper.  One step is one       *)
(* iteration of safe_api_call's loop (the delay, the provider call and,    *)
(* after a failure, the backoff or the raise) together with the handler    *)
(* code that runs until the next provider call or the response.  The       *)
(* provider's answer to each call is the environment's choice.             *)

max_retries_plus_one == 3 + 1

\* line 13
max_retries == 3

\* line 327: head(10)
HeadLimit == 10

MaxQueryLen == 2

QueryChars == {" ", "a"}

Queries == SeqsUpTo(QueryChars, MaxQueryLen)

\* texts of the exceptions the provider may raise
Excs == {"e1", "e2"}

Codes == {<<"a">>, <<"b">>}

\* a DataFrame with the columns code and name, one row per record
Directory(records) == DataFrame(<<"code", "name">>, records)

\* what ak.stock_info_a_code_name may return
DirectoryResults ==
    { NoneResult,
      Directory(<<>>),
      Directory(<<[name |-> <<"a", "b">>, code |-> <<"a">>]>>),
      Directory(<<[name |-> <<"b">>, code |-> <<"b", "a">>],
                  [name |-> <<"a", "b">>, code |-> <<"a">>]>>) }

EmptyFrame == DataFrame(<<>>, <<>>)

\* lines 32-34: the statements in the order they are fetched
FetchOrderIncomeFirst == <<"income", "balance", "cashflow">>

FetchOrder == <<"balance", "income", "cashflow">>

Statements == {"balance", "income", "cashflow"}

\* what ak.stock_financial_report_sina may return for a statement
StatementResults(f) ==
    CASE f = "balance" ->
           { NoneResult,
             BalanceTable(1, NoneCell, NoneCell, NoneCell, NoneCell, TRUE),
             BalanceTable(3, StrCell(<<"8">>), StrCell(<<"3">>),
                          StrCell(<<"1", ",", "0", "0", "0">>), StrCell(<<"-", "-">>), TRUE) }
      [] f = "income" ->
           { EmptyFrame,
             IncomeTable(3, StrCell(<<"8">>), StrCell(<<"3">>),
                         StrCell(<<"1", ",", "0", "0", "0">>), StrCell(<<"-", "-">>), TRUE) }
      [] f = "cashflow" ->
           { NoneResult,
             CashflowTable(3, StrCell(<<"8">>), StrCell(<<"3">>)) }
      [] OTHER -> {}

Results(f) == IF f = "directory" THEN DirectoryResults ELSE StatementResults(f)

\* line 16: time.sleep(0.5), in milliseconds
DelayMs == 500

\* line 23: time.sleep(1), in milliseconds
BackoffMs == 1000

\* an entry of the log: a sleep (ev "delay" or "backoff", ms its length) or a
\* provider call (ev "ok" or "fail", exc the text of the exception raised)
Event(ev, f, at, exc, ms) == [fn |-> f, ev |-> ev, at |-> at, exc |-> exc, ms |-> ms]

Head10(records) == SubSeq(records, 1, IF Len(records) < HeadLimit THEN Len(records) ELSE HeadLimit)

\* lines 324-327
Matches(dir, query) ==
    LET Hit(r) == Contains(r.code, query) \/ Contains(r.name, query)
    IN  Head10(SelectSeq(dir.rows, Hit))

\* line 350 with the codes compared by containment
CompanyInfoContains(dir, code) ==
    LET Is(r) == Contains(r.code, code) IN SelectSeq(dir.rows, Is)

\* line 350
CompanyInfo(dir, code) == LET Is(r) == r.code = code IN SelectSeq(dir.rows, Is)

\* lines 347-353
DirectoryOutcome(dir, code) ==
    IF IsNone(dir) \/ dir.rows = <<>> THEN "nolist"
    ELSE IF CompanyInfo(dir, code) = <<>> THEN "notfound"
    ELSE "found"

\* lines 358-367 without the test of line 358
CompanyResponseNoCheck(code, name, financial_data) ==
    JsonCompany(code, name, financial_data)

\* lines 358-367
CompanyResponse(code, name, financial_data) ==
    IF financial_data.kind = "none"
    THEN JsonError(500, "Failed to fetch financial data")
    ELSE JsonCompany(code, name, financial_data)

Init ==
    /\ pc = "idle" /\ req = NoRequest /\ fn = "" /\ i = 0 /\ log = <<>> /\ raised = ""
    /\ stock_info = NoneResult /\ balance = NoneResult /\ income = NoneResult
    /\ cashflow = NoneResult /\ response = NoResponse /\ arg = <<>> /\ out = <<>>

Fresh ==
    /\ raised' = "" /\ i' = 0
    /\ stock_info' = NoneResult /\ balance' = NoneResult /\ income' = NoneResult
    /\ cashflow' = NoneResult
    /\ UNCHANGED <<arg, out>>

\* search_companies up to its provider call (lines 309-317)
SearchRequest(q) ==
    /\ pc = "idle"
    /\ req' = [q |-> q, kind |-> "search", code |-> <<>>]
    /\ log' = <<>>
    /\ Fresh
    /\ IF Strip(q) = <<>>
       THEN pc' = "done" /\ fn' = "" /\ response' = JsonList(<<>>)      \* line 312
       ELSE pc' = "search" /\ fn' = "directory" /\ response' = NoResponse

\* get_company_data up to its provider call (lines 341-345)
CompanyRequest(code) ==
    /\ pc = "idle"
    /\ req' = [q |-> <<>>, kind |-> "company", code |-> code]
    /\ log' = <<>>
    /\ Fresh
    /\ pc' = "company" /\ fn' = "directory" /\ response' = NoResponse

\* the handler code that follows a returned provider call
Returned(result) ==
    /\ raised' = raised
    /\ i' = 0
    /\ IF pc = "search"
       THEN /\ pc' = "done" /\ fn' = fn
            /\ stock_info' = result
            /\ response' = IF IsNone(result) \/ result.rows = <<>>
                           THEN JsonList(<<>>)                           \* line 321
                           ELSE JsonList(Matches(result, Strip(req.q)))  \* line 330
            /\ UNCHANGED <<balance, income, cashflow>>
       ELSE IF fn = "directory"
       THEN /\ stock_info' = result
            /\ UNCHANGED <<balance, income, cashflow>>
            /\ LET o == DirectoryOutcome(result, req.code)
               IN  IF o = "nolist"
                   THEN pc' = "done" /\ fn' = fn
                        /\ response' = JsonError(500, "no company list")     \* line 348
                   ELSE IF o = "notfound"
                   THEN pc' = "done" /\ fn' = fn
                        /\ response' = JsonError(404, "Company not found")   \* line 353
                   ELSE pc' = pc /\ fn' = FetchOrder[1] /\ response' = response
       ELSE LET k   == CHOOSE m \in 1..3 : FetchOrder[m] = fn
                bal == IF fn = "balance" THEN result ELSE balance
                inc == IF fn = "income" THEN result ELSE income
                cf  == IF fn = "cashflow" THEN result ELSE cashflow
            IN  /\ balance' = bal /\ income' = inc /\ cashflow' = cf
                /\ stock_info' = stock_info
                /\ IF k < 3
                   THEN pc' = pc /\ fn' = FetchOrder[k + 1] /\ response' = response
                   ELSE /\ pc' = "done" /\ fn' = fn
                        /\ response' =
                             CompanyResponse(req.code,
                                             CompanyInfo(stock_info, req.code)[1].name,
                                             Process(bal, inc, cf))

\* the handler code that follows an exception leaving safe_api_call
Raised(e) ==
    /\ raised' = e
    /\ pc' = "done" /\ fn' = fn /\ i' = i
    /\ UNCHANGED <<stock_info, balance, income, cashflow>>
    /\ response' =
         IF pc = "search" THEN JsonList(<<>>)                         \* line 336
         ELSE IF fn = "directory" THEN JsonError(500, e)              \* line 373
         ELSE CompanyResponse(req.code,
                              CompanyInfo(stock_info, req.code)[1].name,
                              NoResult)                               \* lines 174-178

\* one iteration of safe_api_call in which func returns (lines 16-18)
AttemptOk(result) ==
    /\ pc \in {"search", "company"}
    /\ i < max_retries
    /\ result \in Results(fn)
    /\ log' = log \o <<Event("delay", fn, i + 1, "", DelayMs), Event("ok", fn, i + 1, "", 0)>>
    /\ Returned(result)
    /\ UNCHANGED <<req, arg, out>>

\* one iteration of safe_api_call in which func raises (lines 16-23)
AttemptFail(e) ==
    /\ pc \in {"search", "company"}
    /\ i < max_retries
    /\ UNCHANGED <<req, arg, out>>
    /\ IF i = max_retries - 1
       THEN /\ log' = log \o <<Event("delay", fn, i + 1, "", DelayMs),
                               Event("fail", fn, i + 1, e, 0)>>
            /\ Raised(e)                                              \* line 22
       ELSE /\ log' = log \o <<Event("delay", fn, i + 1, "", DelayMs),
                               Event("fail", fn, i + 1, e, 0),
                               Event("backoff", fn, i + 1, "", BackoffMs)>>   \* line 23
            /\ i' = i + 1
            /\ UNCHANGED <<pc, fn, raised, stock_info, balance, income, cashflow, response>>

\* the response is sent and the handler's locals are dropped; the process
\* keeps nothing from one request to the next
SendResponse ==
    /\ pc = "done"
    /\ pc' = "idle" /\ req' = NoRequest /\ fn' = "" /\ log' = <<>> /\ response' = NoResponse
    /\ Fresh

Next ==
    \/ \E q \in Queries : SearchRequest(q)
    \/ \E code \in Codes : CompanyRequest(code)
    \/ \E f \in {"directory"} \cup Statements : \E result \in Results(f) : AttemptOk(result)
    \/ \E e \in Excs : AttemptFail(e)
    \/ SendResponse

Spec == Init /\ [][Next]_vars

----------------------------------------------------------------------------
(* Properties of the routes and the retry wrapper (Spec) *)

Fns == {"directory"} \cup Statements

\* positions of the provider calls of f in the log
Calls(f) == {k \in 1..Len(log) : log[k].fn = f /\ log[k].ev \in {"ok", "fail"}}

Fails(f) == {k \in Calls(f) : log[k].ev = "fail"}

\* the position in directory, balance, income, cashflow
Rank(f) == IF f = "directory" THEN 0
           ELSE IF f = "balance" THEN 1
           ELSE IF f = "income" THEN 2 ELSE 3

SucceededBefore(f, k) == \E j \in 1..(k - 1) : log[j].fn = f /\ log[j].ev = "ok"

StatementRaised == pc = "done" /\ req.kind = "company" /\ raised # "" /\ fn \in Statements

\* C1 as stated: a company request whose statement fetch raised (after the
\* retries) is answered 500 with the exception text as error, and never with
\* financial_data.
Claim_C1 ==
    StatementRaised =>
      /\ response.status = 500
      /\ response.body = "error"
      /\ response.error = raised

\* C1 (amended): a company request whose statement fetch raised (after the
\* retries) is answered 500 with the fixed error text "Failed to fetch
\* financial data" (the exception text is only printed), never with
\* financial_data, and no later statement is fetched.
Thm_C1 ==
    StatementRaised =>
      /\ response.status = 500
      /\ response.body = "error"
      /\ response.error = "Failed to fetch financial data"
      /\ \A k \in 1..Len(log) : Rank(log[k].fn) <= Rank(fn)

Wit_C1 ==
    /\ StatementRaised
    /\ fn = "income"
    /\ ~IsNone(balance)
    /\ response.status = 500

DirectoryReturned ==
    /\ pc = "done" /\ req.kind = "company"
    /\ \E k \in 1..Len(log) : log[k].fn = "directory" /\ log[k].ev = "ok"
    /\ ~IsNone(stock_info)

CodeAbsent == \A k \in 1..Len(stock_info.rows) : stock_info.rows[k].code # req.code

NotFound ==
    /\ response.status = 404
    /\ response.body = "error"
    /\ response.error = "Company not found"

\* C2 as stated: whenever the code is absent from the directory the provider
\* returned, the response is 404 {"error": "Company not found"}.
Claim_C2 == (DirectoryReturned /\ CodeAbsent) => NotFound

\* C2 (amended): whenever the provider returned a non-empty directory and the
\* code is absent from it, the response is 404 {"error": "Company not found"}
\* and no statement is requested from the provider; an empty directory is
\* answered 500 instead.
Thm_C2 ==
    (DirectoryReturned /\ CodeAbsent) =>
      /\ \A k \in 1..Len(log) : log[k].fn = "directory"
      /\ IF stock_info.rows # <<>> THEN NotFound ELSE response.status = 500

Wit_C2 ==
    /\ DirectoryReturned /\ CodeAbsent
    /\ stock_info.rows # <<>>
    /\ NotFound
    /\ Cardinality(Fails("directory")) = 2

\* C3: safe_api_call makes at most three attempts; nothing of the call follows
\* its first success; an exception reaches the caller only as the exception
\* of a third failed attempt, and three failed attempts always raise; the
\* 0.5 s delay comes right before every attempt; the 1 s backoff comes right after a
\* failed attempt exactly when that attempt is not the third, and another
\* attempt of the same call follows it.
Thm_C3 ==
    /\ \A f \in Fns :
         /\ Cardinality(Calls(f)) <= 3
         /\ \A k \in Calls(f) :
              /\ log[k].at = Cardinality({j \in Calls(f) : j <= k})
              /\ k > 1 /\ log[k - 1].ev = "delay" /\ log[k - 1].fn = f
              /\ log[k - 1].ms = 500
              /\ log[k].ev = "ok" => \A j \in (k + 1)..Len(log) : log[j].fn # f
              /\ log[k].ev = "fail" =>
                   IF Cardinality({j \in Calls(f) : j <= k}) < 3
                   THEN /\ k < Len(log) /\ log[k + 1].ev = "backoff"
                        /\ log[k + 1].ms = 1000
                        /\ IF k + 1 = Len(log)
                           THEN fn = f /\ pc \in {"search", "company"} /\ raised = ""
                           ELSE log[k + 2].ev = "delay" /\ log[k + 2].fn = f
                                /\ k + 3 \in Calls(f)
                   ELSE /\ k = Len(log)
                        /\ raised = log[k].exc
                        /\ pc = "done"
    /\ \A k \in 1..Len(log) :
         /\ log[k].ev = "delay" => k < Len(log) /\ (k + 1) \in Calls(log[k].fn)
         /\ log[k].ev = "backoff" => k > 1 /\ log[k - 1].ev = "fail"
    /\ raised # "" =>
         /\ log # <<>>
         /\ log[Len(log)].ev = "fail"
         /\ log[Len(log)].exc = raised
         /\ Cardinality(Fails(log[Len(log)].fn)) = 3

Wit_C3 ==
    /\ pc = "done"
    /\ raised = "e2"
    /\ fn = "income"
    /\ Cardinality(Fails("income")) = 3
    /\ \A k \in Fails("income") : log[k].at < 3 => log[k].exc = "e1"
    /\ Cardinality(Fails("balance")) = 1
    /\ Cardinality(Calls("balance")) = 2

\* C4: the statement fetches of a company request are sequential, in the
\* order balance, income, cash flow: an attempt of a fetch starts only after
\* the fetch before it has returned, a fetch that used up its retries is
\* followed by no other fetch, and every statement fetch comes after the
\* directory fetch returned a directory that holds the code.
Thm_C4 ==
    /\ \A j \in 1..Len(log) : \A k \in j..Len(log) : Rank(log[j].fn) <= Rank(log[k].fn)
    /\ \A k \in 1..Len(log) :
         /\ log[k].fn = "balance" =>
              /\ SucceededBefore("directory", k)
              /\ req.kind = "company"
              /\ ~IsNone(stock_info)
              /\ \E m \in 1..Len(stock_info.rows) : stock_info.rows[m].code = req.code
         /\ log[k].fn = "income" => SucceededBefore("balance", k)
         /\ log[k].fn = "cashflow" => SucceededBefore("income", k)
    /\ \A f \in Statements :
         Cardinality(Fails(f)) = 3 => \A k \in 1..Len(log) : Rank(log[k].fn) <= Rank(f)

Wit_C4 ==
    /\ pc = "done"
    /\ response.status = 200
    /\ response.body = "company"
    /\ response.company.financial_data.kind = "result"
    /\ Cardinality(Fails("balance")) = 2
    /\ Cardinality(Fails("income")) = 1
    /\ Cardinality(Calls("cashflow")) = 3

Blank(q) == \A k \in 1..Len(q) : q[k] = " "

\* C5: a search whose query is missing or blank is answered with an empty
\* JSON array and makes no provider call: no delay, no attempt.
Thm_C5 ==
    (req.kind = "search" /\ Blank(req.q)) =>
      /\ log = <<>>
      /\ pc = "done"
      /\ response.status = 200
      /\ response.body = "list"
      /\ response.results = <<>>

Wit_C5 ==
    /\ req.kind = "search"
    /\ req.q = <<" ", " ">>
    /\ pc = "done"
    /\ response.body = "list"
    /\ response.results = <<>>

====
